---- MODULE Spec2Model ----
(***************************************************************************)
(* A model of prosail.py, the AvoPlot plugin that plots the output of the  *)
(* PyProSAIL vegetation reflectance model and lets the user change four    *)
(* of its parameters through FloatSpin widgets.                            *)
(*                                                                         *)
(* Numbers are held in thousandths (0.009 is 9, 1.5 is 1500, 40 is 40000): *)
(* every literal of the source is then an integer.  The widgets keep two   *)
(* digits (SetDigits(2)), so widget values are multiples of 10.            *)
(***************************************************************************)
EXTENDS Integers, Sequences, FiniteSets, TLC

\* ------------------------------------------------------------- bounds
\* Calls the host makes into the plugin: plot_into_subplot and change events
MaxCalls == 4

\* The rows and columns of the simulation's output table (at least two columns)
Rows == 1..2
Cols == 1..3

Subplots == {"subplotA", "subplotB"}

VARIABLES
    sysModules,   \* TRUE once the module is in the interpreter's module cache
    reimported,   \* TRUE once an import statement has found the module cached
    registry,     \* the host's plugin registry: the plugins registered, in order
    series,       \* the ProSAILSeries objects, in order of construction
    panels,       \* panels[i] is the ProSAILControl constructed by series[i]
    subplots,     \* subplot -> the series added to it, in order
    nCalls,       \* calls of plot_into_subplot and change events so far
    lastCall      \* the most recent call: the statements it executed, the
                  \* simulation calls it made, what the host drew, how it ended

vars == <<sysModules, reimported, registry, series, panels, subplots, nCalls, lastCall>>

\* ------------------------------------------- the external simulation
\* pyprosail.run is a pure function of its positional arguments.  Its numerics
\* are not modelled: a cell of the table it returns is the free term
\* <<column, row, arguments>>, so two outputs agree only for equal arguments.
Cell(args, r, c) == <<c, r, args>>

Table(args) == [r \in Rows |-> [c \in Cols |-> Cell(args, r, c)]]

\* res[:,k] of the source (k counted from 0)
Column(res, k) == [r \in 1..Len(res) |-> res[r][k + 1]]

\* The declared ranges of the four variable parameters, in the positions
\* pyprosail.run takes them: N, chlorophyll, carotenoid, (brown), water.
InDomain(args) ==
    /\ args[1] >= 0 /\ args[1] <= 3000
    /\ args[2] >= 0 /\ args[2] <= 100000
    /\ args[3] >= 0 /\ args[3] <= 100000
    /\ args[5] >= 0 /\ args[5] <= 1000

\* The call's outcome: the table it returns, or an exception raised for
\* out-of-domain arguments and whenever the library fails (fault).
pyprosail_run(args, fault) ==
    IF fault \/ ~InDomain(args)
    THEN [raised |-> TRUE,  table |-> <<>>]
    ELSE [raised |-> FALSE, table |-> Table(args)]

\* ------------------------------------------------ the FloatSpin widget
\* FS.FloatSpin(min_val, max_val, increment, value) followed by SetDigits(2)
FloatSpin(minval, maxval, inc, defaultval) ==
    [min_val |-> minval, max_val |-> maxval, increment |-> inc,
     value |-> defaultval, digits |-> 2]

\* The value the widget takes when the user enters v: an entry outside
\* [min_val, max_val] is brought back to the nearest end of the range.
ClampValue(w, v) ==
    IF v < w.min_val THEN w.min_val ELSE IF v > w.max_val THEN w.max_val ELSE v

\* The values a user tries to enter in a widget: one increment below its
\* range, one increment above it, and the value it was created with.
Attempts(w, created) ==
    {w.min_val - w.increment, created, w.max_val + w.increment}

\* ------------------------------------------------------ ProSAILControl
\* (mutant) the panel keeps the first series, not the one it is given
ProSAILControl_first(s) ==
    [title |-> "ProSAIL Parameters", series |-> 1, isSetup |-> FALSE,
     sliders |-> <<>>, handlers |-> <<>>]

\* ProSAILControl.__init__: a panel that knows its series and has no widget
ProSAILControl(s) ==
    [title |-> "ProSAIL Parameters", series |-> s, isSetup |-> FALSE,
     sliders |-> <<>>, handlers |-> <<>>]

\* (mutant) the sliders map is replaced by one holding the new widget alone
add_slider_overwrite(panel, name, defaultval, minval, maxval, inc, handler) ==
    [panel EXCEPT
        !.sliders  = (name :> FloatSpin(minval, maxval, inc, defaultval)),
        !.handlers = (name :> handler) @@ @]

\* add_slider: create the widget, keep it under its name, bind the handler
add_slider(panel, name, defaultval, minval, maxval, inc, handler) ==
    [panel EXCEPT
        !.sliders  = (name :> FloatSpin(minval, maxval, inc, defaultval)) @@ @,
        !.handlers = (name :> handler) @@ @]

\* (mutant) the structure coefficient's widget is given the range [0, 30]
setup_wide(panel) ==
    LET p0 == [panel EXCEPT !.isSetup = TRUE, !.sliders = <<>>, !.handlers = <<>>]
        p1 == add_slider(p0, "EWT",    100,   0, 1000,   10,   "update_plot")
        p2 == add_slider(p1, "Chloro", 40000, 0, 100000, 1000, "update_plot")
        p3 == add_slider(p2, "Carot",  8000,  0, 100000, 1000, "update_plot")
    IN  add_slider(p3, "N", 1500, 0, 30000, 100, "update_plot")

\* setup: an empty sliders map, then the four widgets, in this order
setup(panel) ==
    LET p0 == [panel EXCEPT !.isSetup = TRUE, !.sliders = <<>>, !.handlers = <<>>]
        p1 == add_slider(p0, "EWT",    100,   0, 1000,   10,   "update_plot")
        p2 == add_slider(p1, "Chloro", 40000, 0, 100000, 1000, "update_plot")
        p3 == add_slider(p2, "Carot",  8000,  0, 100000, 1000, "update_plot")
    IN  add_slider(p3, "N", 1500, 0, 3000, 100, "update_plot")

\* The value each widget is created with, as setup gives it
CreatedValue(name) == setup(ProSAILControl(0)).sliders[name].value

\* (mutant) chlorophyll and carotenoid change places
UpdateArgs_swapped(vals) ==
    <<vals["N"], vals["Carot"], vals["Chloro"], 0, vals["EWT"],
      9, 1000, 3000, 10, 30000, 0, 10000, 0, "Planophile">>

\* The positional arguments of the call in update_plot
UpdateArgs(vals) ==
    <<vals["N"], vals["Chloro"], vals["Carot"], 0, vals["EWT"],
      9, 1000, 3000, 10, 30000, 0, 10000, 0, "Planophile">>

\* (mutant) the redraw is requested before the data is replaced
UpdatePlotBody_redraw_first ==
    << [op |-> "GetValue", key |-> "EWT"],
       [op |-> "GetValue", key |-> "Chloro"],
       [op |-> "GetValue", key |-> "Carot"],
       [op |-> "GetValue", key |-> "N"],
       [op |-> "run", key |-> ""],
       [op |-> "update", key |-> ""],
       [op |-> "set_xy_data", key |-> ""] >>

\* The statements of update_plot, in the order of the source
UpdatePlotBody ==
    << [op |-> "GetValue", key |-> "EWT"],
       [op |-> "GetValue", key |-> "Chloro"],
       [op |-> "GetValue", key |-> "Carot"],
       [op |-> "GetValue", key |-> "N"],
       [op |-> "run", key |-> ""],
       [op |-> "set_xy_data", key |-> ""],
       [op |-> "update", key |-> ""] >>

\* (mutant) only ydata is replaced
set_xy_data_keep_x(st) ==
    [st EXCEPT !.y = Column(st.res.table, 1)]

\* XYDataSeries.set_xy_data(xdata=res[:,0], ydata=res[:,1]) on the running state
set_xy_data(st) ==
    [st EXCEPT !.x = Column(st.res.table, 0), !.y = Column(st.res.table, 1)]

\* One statement of the handler on its running state st: the widgets it reads
\* from, the values read so far, the call's result, the series' data, the
\* statements executed, the calls made, and what the host drew.
Step(stmt, st, fault) ==
    LET logged == [st EXCEPT !.ops = Append(@, stmt)]
    IN  CASE stmt.op = "GetValue" ->
               IF stmt.key \in DOMAIN st.sliders
               THEN [logged EXCEPT !.vals = (stmt.key :> st.sliders[stmt.key].value) @@ @]
               ELSE [logged EXCEPT !.outcome = "KeyError"]
          [] stmt.op = "run" ->
               LET args == UpdateArgs(st.vals)
                   res  == pyprosail_run(args, fault)
               IN  [logged EXCEPT !.calls = Append(@, args), !.res = res,
                                  !.outcome = IF res.raised THEN "raised" ELSE @]
          [] stmt.op = "set_xy_data" -> set_xy_data(logged)
          [] stmt.op = "update" ->
               [logged EXCEPT !.rendered = Append(@, <<st.x, st.y>>)]

\* (mutant) an exception is swallowed and the handler goes on
RECURSIVE Exec_swallow(_, _, _)
Exec_swallow(stmts, st, fault) ==
    IF stmts = <<>>
    THEN st
    ELSE Exec_swallow(Tail(stmts), Step(Head(stmts), st, fault), fault)

\* The statements run in order; an exception ends the handler where it is raised
RECURSIVE Exec(_, _, _)
Exec(stmts, st, fault) ==
    IF stmts = <<>> \/ st.outcome # "running"
    THEN st
    ELSE Exec(Tail(stmts), Step(Head(stmts), st, fault), fault)

\* update_plot on a panel whose series holds (x, y)
update_plot(panel, x, y, fault) ==
    LET st0 == [sliders |-> panel.sliders, vals |-> <<>>,
                res |-> [raised |-> FALSE, table |-> <<>>],
                x |-> x, y |-> y, ops |-> <<>>, calls |-> <<>>,
                rendered |-> <<>>, outcome |-> "running"]
        st  == Exec(UpdatePlotBody, st0, fault)
    IN  [st EXCEPT !.outcome = IF @ = "running" THEN "returned" ELSE @]

\* ------------------------------------------------------- ProSAILSeries
\* ProSAILSeries.__init__ for the series that becomes number s, given the panels
\* that exist: the series, and the panels with its control panel added
ProSAILSeries(s, name, xdata, ydata, ps) ==
    [obj   |-> [name |-> name, xdata |-> xdata, ydata |-> ydata,
                controls |-> <<Len(ps) + 1>>],
     panels |-> Append(ps, ProSAILControl(s))]

\* ------------------------------------------------------- ProsailPlugin
\* ProsailPlugin.__init__
ProsailPlugin ==
    [name |-> "PyProSAIL", series_type |-> "ProSAILSeries",
     menu_entry |-> <<"Optical RS", "PyProSAIL">>]

\* (mutant) chlorophyll and carotenoid change places
DefaultArgs_swapped ==
    <<1500, 8000, 40000, 0, 100, 9, 1000, 3000, 10, 30000, 0, 10000, 0, "Planophile">>

\* The positional arguments of the call in plot_into_subplot
DefaultArgs ==
    <<1500, 40000, 8000, 0, 100, 9, 1000, 3000, 10, 30000, 0, 10000, 0, "Planophile">>

\* (mutant) the series is added to every subplot
plot_into_subplot_all(subplot, fault) ==
    LET res == pyprosail_run(DefaultArgs, fault)
        new == ProSAILSeries(Len(series) + 1, "ProSAIL Output",
                             Column(res.table, 0), Column(res.table, 1), panels)
    IN  IF res.raised
        THEN [series |-> series, panels |-> panels, subplots |-> subplots,
              calls |-> <<DefaultArgs>>, outcome |-> "raised", retval |-> "none"]
        ELSE [series |-> Append(series, new.obj), panels |-> new.panels,
              subplots |-> [sp \in Subplots |-> Append(subplots[sp], Len(series) + 1)],
              calls |-> <<DefaultArgs>>, outcome |-> "returned", retval |-> "True"]

\* plot_into_subplot(subplot): the new values of series, panels and subplots,
\* the calls made and the value returned
plot_into_subplot(subplot, fault) ==
    LET res == pyprosail_run(DefaultArgs, fault)
        new == ProSAILSeries(Len(series) + 1, "ProSAIL Output",
                             Column(res.table, 0), Column(res.table, 1), panels)
    IN  IF res.raised
        THEN [series |-> series, panels |-> panels, subplots |-> subplots,
              calls |-> <<DefaultArgs>>, outcome |-> "raised", retval |-> "none"]
        ELSE [series |-> Append(series, new.obj), panels |-> new.panels,
              subplots |-> [subplots EXCEPT ![subplot] = Append(@, Len(series) + 1)],
              calls |-> <<DefaultArgs>>, outcome |-> "returned", retval |-> "True"]

\* plugins.register: the host keeps the plugin
register(reg, plugin) == Append(reg, plugin)

\* (mutant) the body registers a plugin twice
ModuleBody_twice(reg) == register(register(reg, ProsailPlugin), ProsailPlugin)

\* The module's body: its last statement registers a new ProsailPlugin
ModuleBody(reg) == register(reg, ProsailPlugin)

\* ---------------------------------------------------------------- state
NoCall ==
    [op |-> "none", target |-> "none", ops |-> <<>>, calls |-> <<>>,
     rendered |-> <<>>, outcome |-> "none", retval |-> "none", entered |-> <<>>]

Init ==
    /\ sysModules = FALSE
    /\ reimported = FALSE
    /\ registry = <<>>
    /\ series = <<>>
    /\ panels = <<>>
    /\ subplots = [sp \in Subplots |-> <<>>]
    /\ nCalls = 0
    /\ lastCall = NoCall

\* An import statement: the body runs only when the module is not yet cached
ImportModule ==
    /\ sysModules' = TRUE
    /\ reimported' = sysModules
    /\ registry' = IF sysModules THEN registry ELSE ModuleBody(registry)
    /\ UNCHANGED <<series, panels, subplots, nCalls, lastCall>>

\* The host invokes the registered plugin on one of its subplots
PlotInto(subplot, fault) ==
    /\ Len(registry) > 0
    /\ nCalls < MaxCalls
    /\ nCalls' = nCalls + 1
    /\ LET r == plot_into_subplot(subplot, fault)
       IN  /\ series' = r.series
           /\ panels' = r.panels
           /\ subplots' = r.subplots
           /\ lastCall' = [op |-> "plot_into_subplot", target |-> subplot,
                           ops |-> <<>>, calls |-> r.calls, rendered |-> <<>>,
                           outcome |-> r.outcome, retval |-> r.retval,
                           entered |-> <<>>]
    /\ UNCHANGED <<sysModules, reimported, registry>>

PlotIntoSubplot == \E subplot \in Subplots : PlotInto(subplot, FALSE)

\* The host sets a control panel up, once
Setup ==
    \E p \in 1..Len(panels) :
        /\ ~panels[p].isSetup
        /\ panels' = [panels EXCEPT ![p] = setup(@)]
        /\ UNCHANGED <<sysModules, reimported, registry, series, subplots, nCalls, lastCall>>

\* The user enters v in widget name of panel p.  The widget takes the clamped
\* value; when that changes it, EVT_FLOATSPIN goes to the handler bound to it.
Change(p, name, v, fault) ==
    LET w      == panels[p].sliders[name]
        nv     == ClampValue(w, v)
        panel1 == [panels[p] EXCEPT !.sliders[name].value = nv]
        s      == panel1.series
        r      == update_plot(panel1, series[s].xdata, series[s].ydata, fault)
    IN  /\ nCalls < MaxCalls
        /\ nv # w.value
        /\ nCalls' = nCalls + 1
        /\ panels' = [panels EXCEPT ![p] = panel1]
        /\ IF name \in DOMAIN panel1.handlers
           THEN /\ series' = [series EXCEPT ![s].xdata = r.x, ![s].ydata = r.y]
                /\ lastCall' = [op |-> panel1.handlers[name], target |-> p,
                                ops |-> r.ops, calls |-> r.calls,
                                rendered |-> r.rendered, outcome |-> r.outcome,
                                retval |-> "none", entered |-> <<name, v>>]
           ELSE UNCHANGED <<series, lastCall>>
        /\ UNCHANGED <<sysModules, reimported, registry, subplots>>

ChangeEvent ==
    \E p \in 1..Len(panels) : \E name \in DOMAIN panels[p].sliders :
        \E v \in Attempts(panels[p].sliders[name], CreatedValue(name)) :
            Change(p, name, v, FALSE)

\* The same two entry points when the library's call fails
PlotIntoSubplotRaise == \E subplot \in Subplots : PlotInto(subplot, TRUE)

ChangeEventRaise ==
    \E p \in 1..Len(panels) : \E name \in DOMAIN panels[p].sliders :
        \E v \in Attempts(panels[p].sliders[name], CreatedValue(name)) :
            Change(p, name, v, TRUE)

Next == ImportModule \/ PlotIntoSubplot \/ Setup \/ ChangeEvent

NextRaise == Next \/ PlotIntoSubplotRaise \/ ChangeEventRaise

\* The library returns a table for every in-range call
Spec == Init /\ [][Next]_vars

\* The library may fail on any call
SpecRaise == Init /\ [][NextRaise]_vars

\* ====================================================================
\* The claims
\* ====================================================================
WidgetNames == {"EWT", "Chloro", "Carot", "N"}

\* The most recent call is a change event handled by update_plot
IsUpdate == lastCall.op = "update_plot"

\* The most recent call is an invocation of plot_into_subplot
IsPlot == lastCall.op = "plot_into_subplot"

\* This step is a call of the handler update_plot
UpdateStep == nCalls' = nCalls + 1 /\ lastCall'.op = "update_plot"

\* This step is an invocation of plot_into_subplot
PlotStep == nCalls' = nCalls + 1 /\ lastCall'.op = "plot_into_subplot"

\* The series of the panel the most recent change event was handled by
TargetSeries == panels[lastCall.target].series

\* The first two columns of the simulation's output for the arguments a
OutX(a) == [r \in Rows |-> <<1, r, a>>]
OutY(a) == [r \in Rows |-> <<2, r, a>>]

\* The arguments for the values the widgets of panel p show
ShownArgs(p) ==
    LET w == panels[p].sliders
    IN  <<w["N"].value, w["Chloro"].value, w["Carot"].value, 0, w["EWT"].value,
          9, 1000, 3000, 10, 30000, 0, 10000, 0, "Planophile">>

\* C1: after every completed run of update_plot the series holds column 0 and
\* column 1 of the output of the one simulation call that run made, and
\* nothing of an earlier output.
C1_FreshData ==
    (IsUpdate /\ lastCall.outcome = "returned") =>
        /\ Len(lastCall.calls) = 1
        /\ series[TargetSeries].xdata = OutX(lastCall.calls[1])
        /\ series[TargetSeries].ydata = OutY(lastCall.calls[1])

\* a completed change event after an earlier one on the same panel (two
\* widgets no longer show the value they were created with): the series no
\* longer holds the output plot_into_subplot gave it
C1_Witness ==
    /\ IsUpdate /\ lastCall.outcome = "returned"
    /\ Len(series) = 1
    /\ lastCall.calls[1][1] # 1500 /\ lastCall.calls[1][5] # 100
    /\ series[1].xdata # OutX(DefaultArgs)
    /\ series[1].xdata = OutX(lastCall.calls[1])

\* C2: in every simulation call update_plot makes, EWT is in [0,1], Chloro in
\* [0,100], Carot in [0,100] and N in [0,3], whatever the user entered; the
\* widgets never hold a value outside these ranges.
C2_ArgsInRange ==
    /\ IsUpdate =>
         \A i \in 1..Len(lastCall.calls) :
            LET a == lastCall.calls[i]
            IN  /\ a[5] >= 0 /\ a[5] <= 1000
                /\ a[2] >= 0 /\ a[2] <= 100000
                /\ a[3] >= 0 /\ a[3] <= 100000
                /\ a[1] >= 0 /\ a[1] <= 3000
    /\ \A p \in 1..Len(panels) : \A n \in DOMAIN panels[p].sliders :
         LET v == panels[p].sliders[n].value
         IN  /\ n = "EWT"    => (v >= 0 /\ v <= 1000)
             /\ n = "Chloro" => (v >= 0 /\ v <= 100000)
             /\ n = "Carot"  => (v >= 0 /\ v <= 100000)
             /\ n = "N"      => (v >= 0 /\ v <= 3000)

\* the user entered 3.1 for N and the call was made with 3
C2_Witness ==
    /\ IsUpdate /\ Len(lastCall.calls) = 1
    /\ lastCall.entered = <<"N", 3100>>
    /\ lastCall.calls[1][1] = 3000

\* C3: however many import statements run, the registry holds exactly one
\* registration of the plugin once the module is loaded, and none before.
C3_RegisteredOnce ==
    /\ sysModules  => (Len(registry) = 1 /\ registry[1].name = "PyProSAIL")
    /\ ~sysModules => registry = <<>>

\* an import statement has run again after the module was loaded
C3_Witness == reimported /\ Len(registry) = 1

\* C4: every invocation of plot_into_subplot makes exactly one simulation call,
\* with N=1.5, Chloro=40, Carot=8, EWT=0.1 and the fixed constants, constructs
\* exactly one series holding the first two columns of the result, adds it to
\* the subplot it was given and to no other, and returns True.
C4_PlotIntoSubplot ==
    [][PlotStep =>
        LET a == <<1500, 40000, 8000, 0, 100, 9, 1000, 3000, 10, 30000, 0, 10000,
                   0, "Planophile">>
            n == Len(series) + 1
        IN  /\ lastCall'.calls = <<a>>
            /\ lastCall'.retval = "True"
            /\ Len(series') = n
            /\ \A s \in 1..Len(series) : series'[s] = series[s]
            /\ series'[n].xdata = OutX(a)
            /\ series'[n].ydata = OutY(a)
            /\ subplots'[lastCall'.target] = Append(subplots[lastCall'.target], n)
            /\ \A sp \in Subplots \ {lastCall'.target} : subplots'[sp] = subplots[sp]
    ]_vars

\* a second invocation, into the other subplot than the first
C4_Witness ==
    /\ IsPlot /\ lastCall.retval = "True"
    /\ Len(series) = 2
    /\ subplots["subplotA"] = <<1>> /\ subplots["subplotB"] = <<2>>

\* C5: when the simulation call raises in update_plot, the handler ends there:
\* one simulation call and no second one, the series' data as before the
\* event, no redraw.
C5_RaisePropagates ==
    [][(UpdateStep /\ lastCall'.outcome = "raised") =>
        /\ Len(lastCall'.calls) = 1
        /\ series' = series
        /\ lastCall'.rendered = <<>>
        /\ \A i \in 1..Len(lastCall'.ops) :
              lastCall'.ops[i].op \notin {"set_xy_data", "update"}
        /\ lastCall'.ops[Len(lastCall'.ops)].op = "run"
    ]_vars

\* a change event whose simulation call raised: the widgets show the value
\* entered and the series still holds the output for the values before it
C5_Witness ==
    /\ IsUpdate /\ lastCall.outcome = "raised"
    /\ panels[lastCall.target].sliders["EWT"].value = 1000
    /\ series[TargetSeries].xdata = OutX(DefaultArgs)

\* C6: every series has exactly one control panel, whose series is that series,
\* and a change event handled by a panel leaves the data of every series but
\* its own unchanged.
C6_OwnSeriesOnly ==
    /\ [](\A s \in 1..Len(series) :
            /\ Len(series[s].controls) = 1
            /\ series[s].controls[1] \in 1..Len(panels)
            /\ panels[series[s].controls[1]].series = s)
    /\ [](\A p \in 1..Len(panels) :
            /\ panels[p].series \in 1..Len(series)
            /\ series[panels[p].series].controls = <<p>>)
    /\ [][UpdateStep =>
            \A s \in 1..Len(series) :
               series'[s] # series[s] => series[s].controls = <<lastCall'.target>>
       ]_vars

\* two series; the second one's panel handled a change event, so the second
\* holds a new output and the first the output it was constructed with
C6_Witness ==
    /\ Len(series) = 2
    /\ IsUpdate /\ lastCall.target = 2 /\ lastCall.outcome = "returned"
    /\ series[2].xdata # OutX(DefaultArgs)
    /\ series[1].xdata = OutX(DefaultArgs)

\* C7: a change event is one step: the four widgets are read, then one
\* simulation call is made, then x and y are replaced together, then one redraw
\* is requested, which draws the new x and y; no series ever holds x of one
\* output and y of another.
C7_HandlerOrder ==
    /\ IsUpdate =>
         /\ lastCall.ops = << [op |-> "GetValue", key |-> "EWT"],
                              [op |-> "GetValue", key |-> "Chloro"],
                              [op |-> "GetValue", key |-> "Carot"],
                              [op |-> "GetValue", key |-> "N"],
                              [op |-> "run", key |-> ""],
                              [op |-> "set_xy_data", key |-> ""],
                              [op |-> "update", key |-> ""] >>
         /\ Len(lastCall.calls) = 1
         /\ lastCall.rendered = << <<OutX(lastCall.calls[1]), OutY(lastCall.calls[1])>> >>
    /\ \A s \in 1..Len(series) :
         \A r \in Rows : series[s].xdata[r][3] = series[s].ydata[r][3]

\* a change event on a panel whose series was drawn with the new output
C7_Witness ==
    /\ IsUpdate /\ Len(lastCall.rendered) = 1
    /\ lastCall.rendered[1][1] # OutX(DefaultArgs)
    /\ lastCall.rendered[1][1] = series[TargetSeries].xdata
    /\ lastCall.rendered[1][2] = series[TargetSeries].ydata

\* C8 as stated: the call in update_plot takes the four widget values plus
\* eleven fixed constants.
C8_ElevenConstants ==
    (IsUpdate /\ Len(lastCall.calls) > 0) =>
        Len(lastCall.calls[1]) = 4 + 11

\* C8 as amended: the call in update_plot takes fourteen arguments: the four
\* current widget values (N first, Chloro second, Carot third, EWT fifth) and
\* ten constants that are the same on every call.
C8_TenConstants ==
    (IsUpdate /\ Len(lastCall.calls) > 0) =>
        LET a == lastCall.calls[1]
            w == panels[lastCall.target].sliders
        IN  /\ Len(lastCall.calls) = 1
            /\ Len(a) = 4 + 10
            /\ a[1] = w["N"].value
            /\ a[2] = w["Chloro"].value
            /\ a[3] = w["Carot"].value
            /\ a[5] = w["EWT"].value
            /\ <<a[4], a[6], a[7], a[8], a[9], a[10], a[11], a[12], a[13], a[14]>>
                 = <<0, 9, 1000, 3000, 10, 30000, 0, 10000, 0, "Planophile">>

\* a call made after the user changed Chloro and Carot to different values
C8_Witness ==
    /\ IsUpdate /\ Len(lastCall.calls) = 1
    /\ lastCall.calls[1][2] = 100000
    /\ lastCall.calls[1][3] = 0

\* C9: once a series' control panel is set up, and before any change event
\* too, the series holds the first two columns of the simulation's output for
\* the values its widgets show.
C9_DataMatchesWidgets ==
    \A p \in 1..Len(panels) :
        panels[p].isSetup =>
            /\ DOMAIN panels[p].sliders = WidgetNames
            /\ series[panels[p].series].xdata = OutX(ShownArgs(p))
            /\ series[panels[p].series].ydata = OutY(ShownArgs(p))

\* a panel set up and no change event yet
C9_Witness ==
    /\ IsPlot /\ nCalls = 1
    /\ Len(panels) = 1 /\ panels[1].isSetup
    /\ series[1].ydata = OutY(ShownArgs(1))

\* C10: whenever update_plot runs, the four widgets are in the sliders map and
\* no read fails; a handler is bound only on a panel that setup has given all
\* four widgets.
C10_WidgetsExist ==
    /\ IsUpdate =>
         /\ lastCall.outcome # "KeyError"
         /\ DOMAIN panels[lastCall.target].sliders = WidgetNames
    /\ \A p \in 1..Len(panels) :
         /\ DOMAIN panels[p].handlers \subseteq DOMAIN panels[p].sliders
         /\ DOMAIN panels[p].handlers # {} =>
              (panels[p].isSetup /\ DOMAIN panels[p].sliders = WidgetNames)
         /\ \A n \in DOMAIN panels[p].handlers : panels[p].handlers[n] = "update_plot"

\* the first widget created, EWT, sent the event and update_plot read all four
C10_Witness ==
    /\ IsUpdate /\ lastCall.entered[1] = "EWT"
    /\ Len(lastCall.ops) >= 4
    /\ lastCall.ops[4] = [op |-> "GetValue", key |-> "N"]
    /\ lastCall.outcome # "KeyError"

====
